---- MODULE Spec2Model ----
(***************************************************************************)
(* Model of lighthouse-core/audits/metrics/first-meaningful-paint.js: the  *)
(* FirstMeaningfulPaint audit.  An invocation of audit(artifacts, context) *)
(* requests the computed metric, suspends on the returned promise, and on  *)
(* resumption selects the score options, scores the timing and returns the *)
(* audit product.  Collaborators that live outside the audit's file (the   *)
(* computed-artifact cache, the log-normal scoring function and the i18n   *)
(* message factory) are modelled from their documented contract.           *)
(*                                                                         *)
(* Scores are integers in hundredths (0..100), timings are integers in ms. *)
(***************************************************************************)
EXTENDS Integers, FiniteSets, Sequences, TLC

(* ------------------------------ bounds --------------------------------- *)

NumInvocations == 2
NumContexts == 2
MaxTimingSteps == 5

Invocations == 1..NumInvocations
Contexts == 1..NumContexts

\* Timing values the upstream computation may produce (ms).
Timings == {0, 2000} \cup {800 * k : k \in 1..MaxTimingSteps}

\* Failures of the upstream computation, or cancellation of the context.
Failures == {"UpstreamComputationFailure", "ContextCancelled"}

\* artifacts.TestedAsMobileDevice: false, true or absent.
MobileFlags == {"false", "true", "undefined"}

\* context.settings values (the throttling method stands for the bag).
SettingsValues == {"simulate"}

\* Markers for JavaScript's undefined and NaN in integer-valued positions.
Undefined == 0 - 1
NaN == 0 - 2

(* ------------------------- static configuration ------------------------ *)

defaultOptionsMedianSlip ==
  [mobile |-> [scorePODR |-> 2000, scoreMedian |-> 4000],
   desktop |-> [scorePODR |-> 800, scoreMedian |-> 4000]]

\* static get defaultOptions()
defaultOptions ==
  [mobile |-> [scorePODR |-> 2000, scoreMedian |-> 4000],
   desktop |-> [scorePODR |-> 800, scoreMedian |-> 1600]]

\* Parameter sets a configuration layer may supply besides the built-in
\* ones: one with PODR above the median and one with a non-positive PODR.
ParamSets ==
  {defaultOptions.mobile, defaultOptions.desktop,
   [scorePODR |-> 4000, scoreMedian |-> 2000],
   [scorePODR |-> 0, scoreMedian |-> 1600]}

\* context.options: the defaults, the defaults exchanged, and the defaults
\* with one of the two sets overridden by an invalid one.
ConfiguredOptions ==
  {defaultOptions,
   [mobile |-> defaultOptions.desktop, desktop |-> defaultOptions.mobile],
   [mobile |-> [scorePODR |-> 4000, scoreMedian |-> 2000],
    desktop |-> defaultOptions.desktop],
   [mobile |-> defaultOptions.mobile,
    desktop |-> [scorePODR |-> 0, scoreMedian |-> 1600]]}

\* static get requiredArtifacts(): traces, devtoolsLogs, TestedAsMobileDevice
ArtifactsValues ==
  {[traces |-> "defaultPass.trace", devtoolsLogs |-> "defaultPass.devtoolsLog",
    TestedAsMobileDevice |-> f] : f \in MobileFlags}

(* -------------------- log-normal scoring (fixed point) ----------------- *)

Abs(x) == IF x < 0 THEN 0 - x ELSE x

RECURSIVE Log2Floor(_)
Log2Floor(x) == IF x < 2 THEN 0 ELSE 1 + Log2Floor(x \div 2)

RECURSIVE Pow2(_)
Pow2(k) == IF k = 0 THEN 1 ELSE 2 * Pow2(k - 1)

\* Natural logarithm of an integer x >= 1, scaled by 10^4:
\* ln x = k ln 2 + 2 atanh((m - 1)/(m + 1)) with x = m 2^k, 1 <= m < 2.
Ln(x) ==
  LET k == Log2Floor(x)
      b == Pow2(k)
      y == ((x - b) * 10000) \div (x + b)
      y2 == (y * y) \div 10000
      y3 == (y2 * y) \div 10000
      y5 == (y3 * y2) \div 10000
      y7 == (y5 * y2) \div 10000
  IN k * 6931 + 2 * (y + y3 \div 3 + y5 \div 5 + y7 \div 7)

\* Upper tail of the standard normal distribution at z >= 0 (z scaled by
\* 10^3), in hundredths: 0.5 (1 + a1 z + a2 z^2 + a3 z^3 + a4 z^4)^-4.
UpperTail(z) ==
  IF z > 4000 THEN 0
  ELSE LET z2 == (z * z) \div 1000
           z3 == (z2 * z) \div 1000
           z4 == (z2 * z2) \div 1000
           p == 1000 + (197 * z) \div 1000 + (115 * z2) \div 1000
                     + (344 * z3) \div 1000000 + (195 * z4) \div 10000
           p2 == (p * p) \div 10000
           p4 == p2 * p2
       IN (500000 + p4 \div 2) \div p4

\* Audit.computeLogNormalScore(measuredValue, diminishingReturnsValue,
\* medianValue): complementary log-normal percentile of the measured value.
\* The location is ln(median); the scale is (ln median - ln PODR) / 1.282,
\* so that the PODR scores 0.9 and the median 0.5.
computeLogNormalScore(measuredValue, diminishingReturnsValue, medianValue) ==
  IF measuredValue < 0 \/ diminishingReturnsValue <= 0 \/ medianValue <= 0
       \/ diminishingReturnsValue = medianValue
  THEN NaN
  ELSE LET spread == Ln(medianValue) - Ln(diminishingReturnsValue)
       IN IF measuredValue = 0
          THEN (IF spread > 0 THEN 100 ELSE 0)
          ELSE LET dist == Ln(measuredValue) - Ln(medianValue)
                   z == (Abs(dist) * 1282) \div Abs(spread)
                   above == (dist > 0) = (spread > 0)
               IN IF above THEN UpperTail(z) ELSE 100 - UpperTail(z)

(* ----------------------------- i18n ------------------------------------ *)

\* str_(i18n.UIStrings.seconds, {timeInMs}): a message instance that names
\* the template and carries the value to be formatted.
str_(message, values) == [message |-> message, values |-> values]

(* ------------------------------ state ---------------------------------- *)

VARIABLES
  artifacts,      \* the gathered artifacts handed to every invocation
  options,        \* context.options: {mobile, desktop}
  settings,       \* context.settings
  computedCache,  \* per context: the memoized promise of the computed metric
  computations,   \* per context: how often the upstream computation started
  pc,             \* per invocation: idle / awaiting / fulfilled / rejected
  contextOf,      \* per invocation: the context it was called with (0: none)
  awaited,        \* per invocation: the cache whose promise it awaits
  suspensions,    \* per invocation: how often it has suspended
  metricResult,   \* per invocation: local metricResult ({} until bound)
  scoreOptions,   \* per invocation: local scoreOptions ({} until bound)
  product,        \* per invocation: the returned audit product ({}: none)
  rejection       \* per invocation: the error it rejected with ({}: none)

inputs == <<artifacts, options, settings>>
provider == <<computedCache, computations>>
locals == <<pc, contextOf, awaited, suspensions, metricResult, scoreOptions,
            product, rejection>>
vars == <<artifacts, options, settings, computedCache, computations, pc,
          contextOf, awaited, suspensions, metricResult, scoreOptions,
          product, rejection>>

EmptyEntry == [state |-> "empty", timing |-> Undefined, error |-> "none",
               input |-> {}]

Init ==
  /\ artifacts \in ArtifactsValues
  /\ options \in ConfiguredOptions
  /\ settings \in SettingsValues
  /\ computedCache = [c \in Contexts |-> EmptyEntry]
  /\ computations = [c \in Contexts |-> 0]
  /\ pc = [p \in Invocations |-> "idle"]
  /\ contextOf = [p \in Invocations |-> 0]
  /\ awaited = [p \in Invocations |-> 0]
  /\ suspensions = [p \in Invocations |-> 0]
  /\ metricResult = [p \in Invocations |-> {}]
  /\ scoreOptions = [p \in Invocations |-> {}]
  /\ product = [p \in Invocations |-> {}]
  /\ rejection = [p \in Invocations |-> {}]

(* ------------------ computed-artifact provider (memoized) -------------- *)

\* ComputedFmp.request(data, context): the promise cached under the context
\* for this metric; the first request creates it and starts the computation.
requestEntry(entry, data) ==
  IF entry.state = "empty"
  THEN [state |-> "pending", timing |-> Undefined, error |-> "none",
        input |-> {data}]
  ELSE entry

\* Whether a request against this entry starts the upstream computation.
requestComputes(entry) == entry.state = "empty"

\* The upstream trace computation of context c completes with a timing.
ProviderFulfil(c, t) ==
  /\ computedCache[c].state = "pending"
  /\ computedCache' = [computedCache EXCEPT ![c].state = "fulfilled",
                                            ![c].timing = t]
  /\ UNCHANGED <<inputs, computations, locals>>

\* The upstream trace computation of context c fails, or the context is
\* cancelled while the computation is outstanding.
ProviderReject(c, e) ==
  /\ computedCache[c].state = "pending"
  /\ computedCache' = [computedCache EXCEPT ![c].state = "rejected",
                                            ![c].error = e]
  /\ UNCHANGED <<inputs, computations, locals>>

(* ------------------------------ the audit ------------------------------ *)

\* const metricComputationData = {trace, devtoolsLog, settings}
metricComputationData(arts, ctxSettings) ==
  [trace |-> arts.traces, devtoolsLog |-> arts.devtoolsLogs,
   settings |-> ctxSettings]

requestContextPerInvocation(p, c) == ((p - 1) % NumContexts) + 1

\* The context whose cache the request of invocation p goes to: the context
\* argument of that invocation.
requestContext(p, c) == c

\* audit() up to its await: build the computation data, request the metric
\* and suspend on the promise.
AuditStart(p, c) ==
  /\ pc[p] = "idle"
  /\ LET data == metricComputationData(artifacts, settings)
         k == requestContext(p, c)
     IN /\ computedCache' =
             [computedCache EXCEPT ![k] = requestEntry(computedCache[k], data)]
        /\ computations' =
             [computations EXCEPT ![k] =
                IF requestComputes(computedCache[k]) THEN @ + 1 ELSE @]
        /\ awaited' = [awaited EXCEPT ![p] = k]
  /\ contextOf' = [contextOf EXCEPT ![p] = c]
  /\ suspensions' = [suspensions EXCEPT ![p] = @ + 1]
  /\ pc' = [pc EXCEPT ![p] = "awaiting"]
  /\ UNCHANGED <<inputs, metricResult, scoreOptions, product, rejection>>

awaitYieldsValueMissingAwait(entry) == TRUE

\* `await promise` hands a value to the continuation once the promise is
\* fulfilled.
awaitYieldsValue(entry) == entry.state = "fulfilled"

\* `await promise` throws into the async function once the promise is
\* rejected.
awaitThrows(entry) == entry.state = "rejected"

optionsKeyTrueOnly(flag) == IF flag = "true" THEN "mobile" ELSE "desktop"

\* artifacts.TestedAsMobileDevice === false ? 'desktop' : 'mobile'
optionsKey(flag) == IF flag = "false" THEN "desktop" ELSE "mobile"

\* context.options[key]
resolveScoreOptions(arts, configured) ==
  configured[optionsKey(arts.TestedAsMobileDevice)]

scoreOfSwappedThresholds(timing, opts) ==
  computeLogNormalScore(timing, opts.scoreMedian, opts.scorePODR)

\* Audit.computeLogNormalScore(timing, scorePODR, scoreMedian)
scoreOf(timing, opts) ==
  computeLogNormalScore(timing, opts.scorePODR, opts.scoreMedian)

auditProductScoreAsValue(timing, opts) ==
  [score |-> scoreOf(timing, opts),
   numericValue |-> scoreOf(timing, opts),
   numericUnit |-> "millisecond",
   displayValue |-> str_("seconds", [timeInMs |-> timing])]

\* The object audit() returns.
auditProduct(timing, opts) ==
  [score |-> scoreOf(timing, opts),
   numericValue |-> timing,
   numericUnit |-> "millisecond",
   displayValue |-> str_("seconds", [timeInMs |-> timing])]

\* The continuation of audit() after a fulfilled await, on its own locals.
ContinueLocals(p) ==
  /\ pc[p] = "awaiting"
  /\ awaitYieldsValue(computedCache[awaited[p]])
  /\ LET timing == computedCache[awaited[p]].timing
         opts == resolveScoreOptions(artifacts, options)
     IN /\ metricResult' = [metricResult EXCEPT ![p] = {[timing |-> timing]}]
        /\ scoreOptions' = [scoreOptions EXCEPT ![p] = {opts}]
        /\ product' = [product EXCEPT ![p] = {auditProduct(timing, opts)}]
  /\ pc' = [pc EXCEPT ![p] = "fulfilled"]
  /\ UNCHANGED <<contextOf, awaited, suspensions, rejection>>

AuditContinueDefaultingFlag(p) ==
  /\ ContinueLocals(p)
  /\ artifacts' = [artifacts EXCEPT !.TestedAsMobileDevice =
                     IF @ = "undefined" THEN "true" ELSE @]
  /\ UNCHANGED <<options, settings, provider>>

\* audit() from the fulfilled await to its return: it only reads its
\* arguments.
AuditContinue(p) ==
  /\ ContinueLocals(p)
  /\ UNCHANGED <<inputs, provider>>

settleOnThrowWithFallback(err) ==
  [product |-> {[score |-> 0, numericValue |-> 0,
                 numericUnit |-> "millisecond",
                 displayValue |-> str_("seconds", [timeInMs |-> 0])]},
   rejection |-> {}]

\* audit() has no try/catch: an error thrown by the await rejects the
\* promise audit() returned, with that error and without a product.
settleOnThrow(err) == [product |-> {}, rejection |-> {err}]

\* audit() when its await throws.
AuditThrow(p) ==
  /\ pc[p] = "awaiting"
  /\ awaitThrows(computedCache[awaited[p]])
  /\ LET outcome == settleOnThrow(computedCache[awaited[p]].error)
     IN /\ product' = [product EXCEPT ![p] = outcome.product]
        /\ rejection' = [rejection EXCEPT ![p] = outcome.rejection]
        /\ pc' = [pc EXCEPT ![p] =
                    IF outcome.rejection = {} THEN "fulfilled" ELSE "rejected"]
  /\ UNCHANGED <<inputs, provider, contextOf, awaited, suspensions,
                 metricResult, scoreOptions>>

Next ==
  \/ \E p \in Invocations, c \in Contexts : AuditStart(p, c)
  \/ \E c \in Contexts, t \in Timings : ProviderFulfil(c, t)
  \/ \E c \in Contexts, e \in Failures : ProviderReject(c, e)
  \/ \E p \in Invocations : AuditContinue(p)
  \/ \E p \in Invocations : AuditThrow(p)

Spec == Init /\ [][Next]_vars

TypeOK ==
  /\ artifacts \in ArtifactsValues
  /\ options \in ConfiguredOptions
  /\ options.mobile \in ParamSets /\ options.desktop \in ParamSets
  /\ settings \in SettingsValues
  /\ \A c \in Contexts :
       /\ computedCache[c].state \in {"empty", "pending", "fulfilled", "rejected"}
       /\ computations[c] \in 0..NumInvocations
  /\ \A p \in Invocations :
       /\ pc[p] \in {"idle", "awaiting", "fulfilled", "rejected"}
       /\ contextOf[p] \in 0..NumContexts
       /\ Cardinality(product[p]) <= 1
       /\ Cardinality(rejection[p]) <= 1

(* ------------------------------ properties ----------------------------- *)

Settled(p) == pc[p] \in {"fulfilled", "rejected"}

\* The parameter set the options resolver is specified to select.
SelectedByContract ==
  IF artifacts.TestedAsMobileDevice = "false" THEN options.desktop
  ELSE options.mobile

ValidParams(ps) ==
  /\ ps.scorePODR > 0
  /\ ps.scoreMedian > 0
  /\ ps.scorePODR < ps.scoreMedian

\* C1: the score options an invocation uses are configured.desktop exactly
\* when TestedAsMobileDevice is explicitly false, and configured.mobile when
\* it is true or absent.
C1_OptionsResolution ==
  \A p \in Invocations :
    scoreOptions[p] # {} =>
      /\ artifacts.TestedAsMobileDevice = "false" =>
           scoreOptions[p] = {options.desktop}
      /\ artifacts.TestedAsMobileDevice = "true" =>
           scoreOptions[p] = {options.mobile}
      /\ artifacts.TestedAsMobileDevice = "undefined" =>
           scoreOptions[p] = {options.mobile}

C1_Witness ==
  /\ artifacts.TestedAsMobileDevice = "undefined"
  /\ options.mobile # options.desktop
  /\ \E p \in Invocations : scoreOptions[p] = {options.mobile}

\* C2: when the provider's request fails (or the context is cancelled while
\* the audit is suspended on it), the invocation ends rejected with that
\* same failure, and it never has an audit product.
C2_FailurePropagates ==
  \A p \in Invocations :
    (contextOf[p] # 0 /\ computedCache[contextOf[p]].state = "rejected") =>
      /\ product[p] = {}
      /\ Settled(p) =>
           /\ pc[p] = "rejected"
           /\ rejection[p] = {computedCache[contextOf[p]].error}

C2_Witness ==
  \E p \in Invocations :
    /\ pc[p] = "rejected"
    /\ rejection[p] = {"ContextCancelled"}
    /\ product[p] = {}

\* C3: when the selected parameter set has scorePODR >= scoreMedian or a
\* non-positive threshold, no invocation produces an audit product.
C3_InvalidOptionsRejected ==
  ~ValidParams(SelectedByContract) =>
    \A p \in Invocations : product[p] = {}

\* C4: every returned product has numericValue equal to the timing the
\* provider returned to that invocation, numericUnit "millisecond", a
\* displayValue made from that timing and a score that is the scoring
\* function of that timing under the resolved (scorePODR, scoreMedian).
C4_ProductFields ==
  \A p \in Invocations : \A r \in product[p] :
    \E m \in metricResult[p] : \E so \in scoreOptions[p] :
      /\ r.numericValue = m.timing
      /\ r.numericUnit = "millisecond"
      /\ r.displayValue = str_("seconds", [timeInMs |-> m.timing])
      /\ r.score = computeLogNormalScore(m.timing, so.scorePODR, so.scoreMedian)

C4_Witness ==
  /\ options = defaultOptions
  /\ artifacts.TestedAsMobileDevice = "true"
  /\ \E p \in Invocations : \E r \in product[p] :
       /\ r.numericValue = 2000
       /\ r.score = 90
       /\ r.numericUnit = "millisecond"

\* C5: invocations with the same context and the same artifacts that
\* return a product return identical products.
C5_Idempotent ==
  \A p, q \in Invocations :
    (contextOf[p] = contextOf[q] /\ pc[p] = "fulfilled" /\ pc[q] = "fulfilled")
      => product[p] = product[q]

C5_Witness ==
  \E p, q \in Invocations :
    /\ p # q
    /\ contextOf[p] = contextOf[q]
    /\ pc[p] = "fulfilled" /\ pc[q] = "fulfilled"
    /\ product[p] # {} /\ product[p] = product[q]

\* C6: with valid parameters (0 < scorePODR < scoreMedian) every product's
\* score lies in [0, 1] (0..100 hundredths), and of two products the one
\* with the larger timing never has the higher score.
C6_ScoreRangeMonotone ==
  ValidParams(SelectedByContract) =>
    /\ \A p \in Invocations : \A r \in product[p] : r.score \in 0..100
    /\ \A p, q \in Invocations : \A r \in product[p] : \A s \in product[q] :
         r.numericValue <= s.numericValue => r.score >= s.score

C6_Witness ==
  /\ ValidParams(SelectedByContract)
  /\ \E p, q \in Invocations : \E r \in product[p] : \E s \in product[q] :
       /\ r.numericValue < s.numericValue
       /\ r.score > s.score

\* C7: with the built-in default options a mobile timing of 4000 ms scores
\* 0.5 and of 2000 ms about 0.9, a desktop timing of 1600 ms scores 0.5 and
\* of 800 ms about 0.9, and both default sets have scorePODR < scoreMedian.
C7_DefaultCalibration ==
  /\ defaultOptions.mobile.scorePODR < defaultOptions.mobile.scoreMedian
  /\ defaultOptions.desktop.scorePODR < defaultOptions.desktop.scoreMedian
  /\ options = defaultOptions =>
       \A p \in Invocations : \A r \in product[p] :
         IF artifacts.TestedAsMobileDevice = "false"
         THEN /\ r.numericValue = 1600 => r.score = 50
              /\ r.numericValue = 800 => r.score \in 88..92
         ELSE /\ r.numericValue = 4000 => r.score = 50
              /\ r.numericValue = 2000 => r.score \in 88..92

C7_Witness ==
  /\ options = defaultOptions
  /\ artifacts.TestedAsMobileDevice = "false"
  /\ \E p, q \in Invocations : \E r \in product[p] : \E s \in product[q] :
       /\ r.numericValue = 800 /\ r.score = 90
       /\ s.numericValue = 1600 /\ s.score = 50

\* C8: under every interleaving of invocations the upstream computation
\* starts at most once per context, and every product's numericValue is the
\* one timing cached for the invocation's context.
C8_SingleComputation ==
  /\ \A c \in Contexts : computations[c] <= 1
  /\ \A p \in Invocations : \A r \in product[p] :
       /\ computedCache[contextOf[p]].state = "fulfilled"
       /\ r.numericValue = computedCache[contextOf[p]].timing

C8_Witness ==
  \E p, q \in Invocations :
    /\ p # q
    /\ contextOf[p] = contextOf[q]
    /\ pc[p] = "fulfilled" /\ product[p] # {}
    /\ pc[q] = "awaiting"
    /\ computations[contextOf[p]] = 1

\* C9: an invocation has resolved options or a product only after its
\* timing request completed successfully, and it suspends exactly once.
C9_ScoreAfterTiming ==
  \A p \in Invocations :
    /\ (scoreOptions[p] # {} \/ product[p] # {}) =>
         /\ computedCache[awaited[p]].state = "fulfilled"
         /\ metricResult[p] = {[timing |-> computedCache[awaited[p]].timing]}
         /\ computedCache[awaited[p]].timing \in Timings
    /\ suspensions[p] <= 1
    /\ pc[p] # "idle" => suspensions[p] = 1

C9_Witness ==
  \E p, q \in Invocations :
    /\ pc[p] = "fulfilled" /\ scoreOptions[p] # {} /\ suspensions[p] = 1
    /\ pc[q] = "awaiting" /\ scoreOptions[q] = {} /\ product[q] = {}
    /\ computedCache[awaited[q]].state = "pending"

\* C10: no step changes the artifacts, the configured options or the
\* settings, and a step in which an invocation settles (its continuation
\* after the await) leaves the memoization cache as it was.
C10_InputsUnchanged ==
  [][/\ artifacts' = artifacts
     /\ options' = options
     /\ settings' = settings
     /\ (\E p \in Invocations : pc[p] = "awaiting" /\ pc'[p] # "awaiting") =>
          (computedCache' = computedCache /\ computations' = computations)]_vars

C10_Witness ==
  \E p, q \in Invocations :
    /\ pc[p] = "fulfilled" /\ product[p] # {}
    /\ pc[q] = "rejected"
    /\ artifacts.TestedAsMobileDevice = "undefined"
====
